---- MODULE Spec2Model ----
(***************************************************************************)
(* Document retrieval engine of firestore-rs (src/db/get.rs):              *)
(*   - single-document fetch with bounded retry (get_doc_by_path) and the  *)
(*     typed / existence-folding wrappers built on it;                     *)
(*   - batch fetch (batch_stream_get_docs_at_with_errors) and the three    *)
(*     stream views derived from it.                                       *)
(* Strings are sequences of one-character strings, Option<T> is a sequence *)
(* of length 0 (None) or 1 (Some), Result<T,E> is a record [tag, val].     *)
(***************************************************************************)
EXTENDS Integers, Sequences, FiniteSets, TLC

\* ---------------------------------------------------------------- bounds
MaxRetriesBound == 2
MaxIdLen == 2
NumCalls == 2
MaxBatch == 2
MaxEmpty == 1
MaxNameLen == 3
MaxItems == 2

\* ------------------------------------------------------- Option / Result
None == << >>
Some(x) == << x >>
IsSome(o) == Len(o) = 1
Unwrap(o) == o[1]

Ok(v) == [tag |-> "Ok", val |-> v]
Err(e) == [tag |-> "Err", val |-> e]
Pending == [tag |-> "Pending", val |-> << >>]
IsOk(r) == r.tag = "Ok"
IsErr(r) == r.tag = "Err"

\* -------------------------------------------------------- FirestoreError
FsError(kind, retry, detail) == [kind |-> kind, retry_possible |-> retry, detail |-> detail]

ErrTags == {"e1", "e2"}

\* errors an RPC can end with, after the conversion into FirestoreError
RpcErrors ==
  { FsError("DatabaseError", r, <<t>>) : r \in BOOLEAN, t \in ErrTags }
    \cup { FsError("DataNotFoundError", FALSE, <<t>>) : t \in ErrTags }
    \cup { FsError("SystemError", FALSE, <<t>>) : t \in ErrTags }

\* the retry guard of get_doc_by_path
RetryableOffByOne(err, retries, max_retries) ==
  err.kind = "DatabaseError" /\ err.retry_possible /\ retries <= max_retries
RetryableUnbounded(err, retries, max_retries) ==
  err.kind = "DatabaseError" /\ err.retry_possible
RetryableAnyDatabaseError(err, retries, max_retries) ==
  err.kind = "DatabaseError" /\ retries < max_retries
Retryable(err, retries, max_retries) ==
  err.kind = "DatabaseError" /\ err.retry_possible /\ retries < max_retries

\* --------------------------------------------------------------- strings
Slash == "/"
IdChars == {"a", Slash}

RECURSIVE SeqsUpTo(_, _)
SeqsUpTo(S, n) ==
  IF n = 0 THEN { << >> }
  ELSE LET shorter == SeqsUpTo(S, n - 1)
       IN shorter \cup { Append(s, x) : s \in {t \in shorter : Len(t) = n - 1}, x \in S }

DocIds == SeqsUpTo(IdChars, MaxIdLen)

DocumentsPath == <<"r", Slash, "d">>
Parents == { DocumentsPath, DocumentsPath \o <<Slash, "p">> }
Collections == { <<"c">> }
Masks == { None, Some(<<"f">>) }

HasSlash(s) == \E i \in 1..Len(s) : s[i] = Slash

\* path resolver: rejects an id that holds a separator, else joins the parts
safe_document_path(parent, collection_id, document_id) ==
  IF HasSlash(document_id)
  THEN Err(FsError("InvalidParametersError", FALSE, document_id))
  ELSE Ok(parent \o <<Slash>> \o collection_id \o <<Slash>> \o document_id)

\* s.split('/').last(): the part after the last separator, the whole string
\* when there is none (split always yields at least one piece)
RECURSIVE LastSegmentFrom(_, _)
LastSegmentFrom(s, i) ==
  IF i = 0 THEN s
  ELSE IF s[i] = Slash THEN SubSeq(s, i + 1, Len(s))
  ELSE LastSegmentFrom(s, i - 1)

FirstSegment(s) ==
  IF HasSlash(s)
  THEN SubSeq(s, 1, (CHOOSE i \in 1..Len(s) : s[i] = Slash /\ \A j \in 1..(i-1) : s[j] # Slash) - 1)
  ELSE s
LastSegment(s) == LastSegmentFrom(s, Len(s))

\* -------------------------------------------------------------- documents
Document(name, decodable) == [name |-> name, decodable |-> decodable]
Object(name) == [of |-> name]

\* typed decode of a document into the application type
deserialize_doc_to(doc) ==
  IF doc.decodable THEN Ok(Object(doc.name))
  ELSE Err(FsError("DeserializeError", FALSE, doc.name))

\* ------------------------------------------------------------------ state
VARIABLES
  options,    \* session options: max_retries, and whether the session's
              \* consistency selector converts into the request's selector
  pc,         \* per single-document call: "idle", "rpc" (awaiting the reply), "done"
  call,       \* per call: the operation invoked and its arguments
  retries,    \* per call: the `retries` argument of the running get_doc_by_path
  requests,   \* per call: GetDocumentRequests issued so far
  replies,    \* per call: outcomes of the RPC attempts so far
  result      \* per call: what the top-level call returned

VARIABLES
  bpc,        \* batch call: "idle", "handshake" (awaiting batch_get_documents),
              \* "streaming", "done" (stream exhausted), "failed" (the call returned Err)
  bcall,      \* the batch operation invoked and its arguments
  brequests,  \* BatchGetDocumentsRequests issued so far
  bresult,    \* what the batch call itself returned: Ok (a stream) or Err
  slots,      \* requested references the service has not answered yet
  arrived,    \* response envelopes received so far, in arrival order
  out,        \* elements the returned stream has produced so far
  origin      \* for each element of out, the index in arrived of its envelope

getvars == <<pc, call, retries, requests, replies, result>>
batchvars == <<bpc, bcall, brequests, bresult, slots, arrived, out, origin>>
vars == <<options, getvars, batchvars>>

Calls == 1..NumCalls
\* the call of the sequential specification
FirstCall == 1

TypedOps == {"get_obj", "get_obj_at", "get_obj_return_fields",
             "get_obj_at_return_fields", "get_obj_if_exists", "get_obj_at_if_exists"}
FoldingOps == {"get_obj_if_exists", "get_obj_at_if_exists"}

NoCall == [op |-> "none", parent |-> << >>, collection_id |-> << >>,
           document_id |-> << >>, return_only_fields |-> None]

\* failure of `selector.try_into()` while a request is built
SelectorError == FsError("InvalidParametersError", FALSE, <<"consistency_selector">>)

\* get_obj_at / get_obj_at_return_fields after the awaited get_doc_at:
\* `?` passes an error on, a document is decoded
TypedResultAsNotFound(doc_res) ==
  IF IsErr(doc_res) THEN doc_res
  ELSE IF doc_res.val.decodable THEN deserialize_doc_to(doc_res.val)
  ELSE Err(FsError("DataNotFoundError", FALSE, doc_res.val.name))
TypedResult(doc_res) ==
  IF IsErr(doc_res) THEN doc_res ELSE deserialize_doc_to(doc_res.val)

\* the mask argument of the recursive call of get_doc_by_path
RetryMaskKept(return_only_fields) == return_only_fields
RetryMask(return_only_fields) == None

\* the match of get_obj_at_if_exists
FoldResultAnyError(obj_res) ==
  IF IsOk(obj_res) THEN Ok(Some(obj_res.val)) ELSE Ok(None)
FoldResult(obj_res) ==
  IF IsOk(obj_res) THEN Ok(Some(obj_res.val))
  ELSE IF obj_res.val.kind = "DataNotFoundError" THEN Ok(None)
  ELSE obj_res

\* what the top-level operation returns once its get_doc_at has returned
ResultOfDefaultUnfolded(op, doc_res) ==
  LET typed == IF op \in TypedOps THEN TypedResult(doc_res) ELSE doc_res
  IN IF op = "get_obj_at_if_exists" THEN FoldResult(typed) ELSE typed
ResultOf(op, doc_res) ==
  LET typed == IF op \in TypedOps THEN TypedResult(doc_res) ELSE doc_res
  IN IF op \in FoldingOps THEN FoldResult(typed) ELSE typed

Return(c, doc_res) ==
  /\ pc' = [pc EXCEPT ![c] = "done"]
  /\ result' = [result EXCEPT ![c] = ResultOf(call'[c].op, doc_res)]

\* one invocation of get_doc_by_path up to its await: build the request
\* (the selector conversion may fail), then issue the RPC
get_doc_by_path_shared_counter(c, document_path, return_only_fields, n) ==
  /\ retries' = [c2 \in Calls |-> n]
  /\ IF ~options.selector_ok
     THEN /\ Return(c, Err(SelectorError))
          /\ UNCHANGED requests
     ELSE /\ requests' = [requests EXCEPT ![c] =
                 Append(@, [name |-> document_path, mask |-> return_only_fields])]
          /\ pc' = [pc EXCEPT ![c] = "rpc"]
          /\ UNCHANGED result
get_doc_by_path(c, document_path, return_only_fields, n) ==
  /\ retries' = [retries EXCEPT ![c] = n]
  /\ IF ~options.selector_ok
     THEN /\ Return(c, Err(SelectorError))
          /\ UNCHANGED requests
     ELSE /\ requests' = [requests EXCEPT ![c] =
                 Append(@, [name |-> document_path, mask |-> return_only_fields])]
          /\ pc' = [pc EXCEPT ![c] = "rpc"]
          /\ UNCHANGED result

\* body of get_doc_at, entered for the top-level operation `op`
GetDocAt(c, op, parent, collection_id, document_id, return_only_fields) ==
  /\ pc[c] = "idle"
  /\ call' = [call EXCEPT ![c] =
        [op |-> op, parent |-> parent, collection_id |-> collection_id,
         document_id |-> document_id, return_only_fields |-> return_only_fields]]
  /\ UNCHANGED <<options, replies, batchvars>>
  /\ LET document_path == safe_document_path(parent, collection_id, document_id)
     IN IF IsErr(document_path)
        THEN Return(c, document_path) /\ UNCHANGED <<retries, requests>>
        ELSE get_doc_by_path(c, document_path.val, return_only_fields, 0)

get_doc_at(c) ==
  /\ pc[c] = "idle"
  /\ \E parent \in Parents, coll \in Collections, id \in DocIds, mask \in Masks :
       GetDocAt(c, "get_doc_at", parent, coll, id, mask)

get_doc(c) ==
  /\ pc[c] = "idle"
  /\ \E coll \in Collections, id \in DocIds, mask \in Masks :
       GetDocAt(c, "get_doc", DocumentsPath, coll, id, mask)

get_obj(c) ==
  /\ pc[c] = "idle"
  /\ \E coll \in Collections, id \in DocIds :
       GetDocAt(c, "get_obj", DocumentsPath, coll, id, None)

get_obj_return_fields(c) ==
  /\ pc[c] = "idle"
  /\ \E coll \in Collections, id \in DocIds, mask \in Masks :
       GetDocAt(c, "get_obj_return_fields", DocumentsPath, coll, id, mask)

get_obj_at(c) ==
  /\ pc[c] = "idle"
  /\ \E parent \in Parents, coll \in Collections, id \in DocIds :
       GetDocAt(c, "get_obj_at", parent, coll, id, None)

get_obj_at_return_fields(c) ==
  /\ pc[c] = "idle"
  /\ \E parent \in Parents, coll \in Collections, id \in DocIds, mask \in Masks :
       GetDocAt(c, "get_obj_at_return_fields", parent, coll, id, mask)

get_obj_if_exists(c) ==
  /\ pc[c] = "idle"
  /\ \E coll \in Collections, id \in DocIds, mask \in Masks :
       GetDocAt(c, "get_obj_if_exists", DocumentsPath, coll, id, mask)

get_obj_at_if_exists(c) ==
  /\ pc[c] = "idle"
  /\ \E parent \in Parents, coll \in Collections, id \in DocIds, mask \in Masks :
       GetDocAt(c, "get_obj_at_if_exists", parent, coll, id, mask)

\* what the service can answer to a GetDocumentRequest
GetDocumentOutcomes(request) ==
  { Ok(Document(request.name, d)) : d \in BOOLEAN } \cup { Err(e) : e \in RpcErrors }

\* the awaited get_document resolves: the match of get_doc_by_path
get_document_reply(c) ==
  /\ pc[c] = "rpc"
  /\ LET request == requests[c][Len(requests[c])]
     IN \E outcome \in GetDocumentOutcomes(request) :
          /\ replies' = [replies EXCEPT ![c] = Append(@, outcome)]
          /\ UNCHANGED <<options, call, batchvars>>
          /\ IF IsOk(outcome)
             THEN Return(c, outcome) /\ UNCHANGED <<retries, requests>>
             ELSE IF Retryable(outcome.val, retries[c], options.max_retries)
             THEN get_doc_by_path(c, request.name, RetryMask(request.mask), retries[c] + 1)
             ELSE Return(c, outcome) /\ UNCHANGED <<retries, requests>>

SessionOptions == [max_retries : 0..MaxRetriesBound, selector_ok : BOOLEAN]

\* ------------------------------------------------------------ batch fetch
WithErrorsDocOps == {"batch_stream_get_docs_at_with_errors", "batch_stream_get_docs_with_errors"}
DocOps == {"batch_stream_get_docs_at", "batch_stream_get_docs"}
ObjectOps == {"batch_stream_get_objects_at", "batch_stream_get_objects"}
WithErrorsObjectOps == {"batch_stream_get_objects_at_with_errors",
                        "batch_stream_get_objects_with_errors"}
PreservingOps == WithErrorsDocOps \cup WithErrorsObjectOps
SuppressingOps == DocOps \cup ObjectOps

IdLists == SeqsUpTo(DocIds, MaxBatch)

\* transport errors of the batch RPC, at the handshake or inside the stream
StreamErrors == { FsError("DatabaseError", TRUE, <<"e1">>),
                  FsError("DatabaseError", FALSE, <<"e2">>) }

\* batch_get_documents_response::Result and the response envelope around it
NoDocument == Document(<< >>, FALSE)
Found(document) == [case |-> "Found", document |-> document, missing |-> << >>]
Missing(full_doc_id) == [case |-> "Missing", document |-> NoDocument, missing |-> full_doc_id]
Response(res) == [result |-> res]

Pair(doc_id, value) == [id |-> doc_id, value |-> value]

\* document_ids.map(safe_document_path).collect::<FirestoreResult<Vec<_>>>():
\* the paths in input order, or the first resolution error
RECURSIVE CollectPathsSkipInvalid(_, _, _, _)
CollectPathsSkipInvalid(parent, collection_id, document_ids, acc) ==
  IF document_ids = << >> THEN Ok(acc)
  ELSE LET p == safe_document_path(parent, collection_id, Head(document_ids))
       IN CollectPathsSkipInvalid(parent, collection_id, Tail(document_ids),
                                  IF IsErr(p) THEN acc ELSE Append(acc, p.val))
RECURSIVE CollectPaths(_, _, _, _)
CollectPaths(parent, collection_id, document_ids, acc) ==
  IF document_ids = << >> THEN Ok(acc)
  ELSE LET p == safe_document_path(parent, collection_id, Head(document_ids))
       IN IF IsErr(p) THEN p
          ELSE CollectPaths(parent, collection_id, Tail(document_ids), Append(acc, p.val))

\* filter_map closure of batch_stream_get_docs_at_with_errors:
\* Option<FirestoreResult<(String, Option<Document>)>> for one stream item
CorrelateMissingAsError(r) ==
  IF IsOk(r)
  THEN IF r.val.result = None THEN None
       ELSE LET doc_res == Unwrap(r.val.result)
            IN IF doc_res.case = "Found"
               THEN Some(Ok(Pair(LastSegment(doc_res.document.name), Some(doc_res.document))))
               ELSE Some(Err(FsError("DataNotFoundError", FALSE, doc_res.missing)))
  ELSE Some(Err(r.val))
CorrelateEmptyAsError(r) ==
  IF IsOk(r)
  THEN IF r.val.result = None
       THEN Some(Err(FsError("SystemError", FALSE, <<"no result">>)))
       ELSE LET doc_res == Unwrap(r.val.result)
            IN IF doc_res.case = "Found"
               THEN Some(Ok(Pair(LastSegment(doc_res.document.name), Some(doc_res.document))))
               ELSE Some(Ok(Pair(LastSegment(doc_res.missing), None)))
  ELSE Some(Err(r.val))
CorrelateDropsErrors(r) ==
  IF IsOk(r)
  THEN IF r.val.result = None THEN None
       ELSE LET doc_res == Unwrap(r.val.result)
            IN IF doc_res.case = "Found"
               THEN Some(Ok(Pair(LastSegment(doc_res.document.name), Some(doc_res.document))))
               ELSE Some(Ok(Pair(LastSegment(doc_res.missing), None)))
  ELSE None
Correlate(r) ==
  IF IsOk(r)
  THEN IF r.val.result = None THEN None
       ELSE LET doc_res == Unwrap(r.val.result)
            IN IF doc_res.case = "Found"
               THEN Some(Ok(Pair(LastSegment(doc_res.document.name), Some(doc_res.document))))
               ELSE Some(Ok(Pair(LastSegment(doc_res.missing), None)))
  ELSE Some(Err(r.val))

\* filter_map closure of batch_stream_get_docs_at
SuppressErrors(doc_res) ==
  IF IsOk(doc_res) THEN Some(doc_res.val) ELSE None

\* filter_map closure of batch_stream_get_objects_at
DecodeOrDropAsMissing(pair) ==
  IF IsSome(pair.value)
  THEN LET obj == deserialize_doc_to(Unwrap(pair.value))
       IN IF IsOk(obj) THEN Some(Pair(pair.id, Some(obj.val))) ELSE Some(Pair(pair.id, None))
  ELSE Some(Pair(pair.id, None))
DecodeOrDrop(pair) ==
  IF IsSome(pair.value)
  THEN LET obj == deserialize_doc_to(Unwrap(pair.value))
       IN IF IsOk(obj) THEN Some(Pair(pair.id, Some(obj.val))) ELSE None
  ELSE Some(Pair(pair.id, None))

\* and_then closure of batch_stream_get_objects_at_with_errors, as
\* TryStreamExt::and_then applies it: an Err item passes through untouched
DecodeElement(elem) ==
  IF IsErr(elem) THEN elem
  ELSE LET pair == elem.val
       IN IF IsSome(pair.value)
          THEN LET obj == deserialize_doc_to(Unwrap(pair.value))
               IN IF IsOk(obj) THEN Ok(Pair(pair.id, Some(obj.val))) ELSE obj
          ELSE Ok(Pair(pair.id, None))

\* the element, if any, that the stream returned by `op` yields for item r:
\* each combinator hands on what the one before it yielded
Element(op, r) ==
  LET with_errors == Correlate(r)
      docs == IF IsSome(with_errors) THEN SuppressErrors(Unwrap(with_errors)) ELSE None
      objects == IF IsSome(docs) THEN DecodeOrDrop(Unwrap(docs)) ELSE None
      objects_with_errors ==
        IF IsSome(with_errors) THEN Some(DecodeElement(Unwrap(with_errors))) ELSE None
  IN IF op \in WithErrorsDocOps THEN with_errors
     ELSE IF op \in DocOps THEN docs
     ELSE IF op \in ObjectOps THEN objects
     ELSE objects_with_errors

Range(s) == { s[i] : i \in 1..Len(s) }

\* body of batch_stream_get_docs_at_with_errors up to its await, entered
\* for the top-level operation `op`
BatchGetDocsAtWithErrors(op, parent, collection_id, document_ids, return_only_fields) ==
  /\ bpc = "idle"
  /\ bcall' = [op |-> op, parent |-> parent, collection_id |-> collection_id,
               document_ids |-> document_ids, return_only_fields |-> return_only_fields]
  /\ UNCHANGED <<options, getvars, slots, arrived, out, origin>>
  /\ LET full_doc_ids == CollectPaths(parent, collection_id, document_ids, << >>)
     IN IF IsErr(full_doc_ids)
        THEN /\ bpc' = "failed"
             /\ bresult' = full_doc_ids
             /\ UNCHANGED brequests
        ELSE IF ~options.selector_ok
        THEN /\ bpc' = "failed"
             /\ bresult' = Err(SelectorError)
             /\ UNCHANGED brequests
        ELSE /\ brequests' = Append(brequests,
                    [documents |-> full_doc_ids.val, mask |-> return_only_fields])
             /\ bpc' = "handshake"
             /\ UNCHANGED bresult

batch_stream_get_docs_at_with_errors ==
  /\ bpc = "idle"
  /\ \E parent \in Parents, coll \in Collections, ids \in IdLists, mask \in Masks :
       BatchGetDocsAtWithErrors("batch_stream_get_docs_at_with_errors", parent, coll, ids, mask)

batch_stream_get_docs_at ==
  /\ bpc = "idle"
  /\ \E parent \in Parents, coll \in Collections, ids \in IdLists, mask \in Masks :
       BatchGetDocsAtWithErrors("batch_stream_get_docs_at", parent, coll, ids, mask)

batch_stream_get_docs ==
  /\ bpc = "idle"
  /\ \E coll \in Collections, ids \in IdLists, mask \in Masks :
       BatchGetDocsAtWithErrors("batch_stream_get_docs", DocumentsPath, coll, ids, mask)

batch_stream_get_docs_with_errors ==
  /\ bpc = "idle"
  /\ \E coll \in Collections, ids \in IdLists, mask \in Masks :
       BatchGetDocsAtWithErrors("batch_stream_get_docs_with_errors", DocumentsPath, coll, ids, mask)

batch_stream_get_objects ==
  /\ bpc = "idle"
  /\ \E coll \in Collections, ids \in IdLists, mask \in Masks :
       BatchGetDocsAtWithErrors("batch_stream_get_objects", DocumentsPath, coll, ids, mask)

batch_stream_get_objects_at ==
  /\ bpc = "idle"
  /\ \E parent \in Parents, coll \in Collections, ids \in IdLists, mask \in Masks :
       BatchGetDocsAtWithErrors("batch_stream_get_objects_at", parent, coll, ids, mask)

batch_stream_get_objects_at_with_errors ==
  /\ bpc = "idle"
  /\ \E parent \in Parents, coll \in Collections, ids \in IdLists, mask \in Masks :
       BatchGetDocsAtWithErrors("batch_stream_get_objects_at_with_errors", parent, coll, ids, mask)

batch_stream_get_objects_with_errors ==
  /\ bpc = "idle"
  /\ \E coll \in Collections, ids \in IdLists, mask \in Masks :
       BatchGetDocsAtWithErrors("batch_stream_get_objects_with_errors", DocumentsPath, coll, ids, mask)

\* the awaited batch_get_documents resolves: a response stream, or the
\* failure of the call
batch_get_documents_reply_retrying ==
  /\ bpc = "handshake"
  /\ UNCHANGED <<options, getvars, bcall, arrived, out, origin>>
  /\ \/ /\ bpc' = "streaming"
        /\ bresult' = Ok(<<"stream">>)
        /\ slots' = Range(brequests[Len(brequests)].documents)
        /\ UNCHANGED brequests
     \/ \E err \in StreamErrors :
          IF err.retry_possible /\ Len(brequests) <= options.max_retries
          THEN /\ brequests' = Append(brequests, brequests[Len(brequests)])
               /\ UNCHANGED <<bpc, bresult, slots>>
          ELSE /\ bpc' = "failed"
               /\ bresult' = Err(err)
               /\ UNCHANGED <<slots, brequests>>
batch_get_documents_reply ==
  /\ bpc = "handshake"
  /\ UNCHANGED <<options, getvars, bcall, brequests, arrived, out, origin>>
  /\ \/ /\ bpc' = "streaming"
        /\ bresult' = Ok(<<"stream">>)
        /\ slots' = Range(brequests[Len(brequests)].documents)
     \/ \E err \in StreamErrors :
          /\ bpc' = "failed"
          /\ bresult' = Err(err)
          /\ UNCHANGED slots

\* the service's answer for one requested reference: the document, its
\* absence, or a transport error in its place
SlotItems(ref) ==
  { Ok(Response(Some(Found(Document(ref, d))))) : d \in BOOLEAN }
    \cup { Ok(Response(Some(Missing(ref)))) }
    \cup { Err(e) : e \in StreamErrors }

\* a response that carries no result
EmptyItem == Ok(Response(None))

ConsumeUntilError(r) ==
  LET elem == IF \E i \in 1..Len(arrived) : IsErr(arrived[i])
              THEN None ELSE Element(bcall.op, r)
  IN /\ arrived' = Append(arrived, r)
     /\ IF IsSome(elem)
        THEN /\ out' = Append(out, Unwrap(elem))
             /\ origin' = Append(origin, Len(arrived) + 1)
        ELSE UNCHANGED <<out, origin>>
ConsumeTwice(r) ==
  LET elem == Element(bcall.op, r)
  IN /\ arrived' = Append(arrived, r)
     /\ IF IsSome(elem)
        THEN /\ out' = out \o <<Unwrap(elem), Unwrap(elem)>>
             /\ origin' = origin \o <<Len(arrived) + 1, Len(arrived) + 1>>
        ELSE UNCHANGED <<out, origin>>
ConsumePrepend(r) ==
  LET elem == Element(bcall.op, r)
  IN /\ arrived' = Append(arrived, r)
     /\ IF IsSome(elem)
        THEN /\ out' = <<Unwrap(elem)>> \o out
             /\ origin' = <<Len(arrived) + 1>> \o origin
        ELSE UNCHANGED <<out, origin>>
Consume(r) ==
  LET elem == Element(bcall.op, r)
  IN /\ arrived' = Append(arrived, r)
     /\ IF IsSome(elem)
        THEN /\ out' = Append(out, Unwrap(elem))
             /\ origin' = Append(origin, Len(arrived) + 1)
        ELSE UNCHANGED <<out, origin>>

\* the consumer polls the stream and the next item of the response arrives
stream_next ==
  /\ bpc = "streaming"
  /\ UNCHANGED <<options, getvars, bpc, bcall, brequests, bresult>>
  /\ \/ \E ref \in slots :
          /\ slots' = slots \ {ref}
          /\ \E r \in SlotItems(ref) : Consume(r)
     \/ /\ Cardinality({ i \in 1..Len(arrived) : arrived[i] = EmptyItem }) < MaxEmpty
        /\ UNCHANGED slots
        /\ Consume(EmptyItem)

\* the response stream completes, and the returned stream with it
stream_end ==
  /\ bpc = "streaming"
  /\ slots = {}
  /\ bpc' = "done"
  /\ UNCHANGED <<options, getvars, bcall, brequests, bresult, slots, arrived, out, origin>>

NoBatchCall == [op |-> "none", parent |-> << >>, collection_id |-> << >>,
                document_ids |-> << >>, return_only_fields |-> None]

Init ==
  /\ options \in SessionOptions
  /\ pc = [c \in Calls |-> "idle"]
  /\ call = [c \in Calls |-> NoCall]
  /\ retries = [c \in Calls |-> 0]
  /\ requests = [c \in Calls |-> << >>]
  /\ replies = [c \in Calls |-> << >>]
  /\ result = [c \in Calls |-> Pending]
  /\ bpc = "idle"
  /\ bcall = NoBatchCall
  /\ brequests = << >>
  /\ bresult = Pending
  /\ slots = {}
  /\ arrived = << >>
  /\ out = << >>
  /\ origin = << >>

NextGet ==
  \E c \in {FirstCall} :
    \/ get_doc_at(c)
    \/ get_doc(c)
    \/ get_obj(c)
    \/ get_obj_return_fields(c)
    \/ get_obj_at(c)
    \/ get_obj_at_return_fields(c)
    \/ get_obj_if_exists(c)
    \/ get_obj_at_if_exists(c)
    \/ get_document_reply(c)

NextBatch ==
  \/ batch_stream_get_docs_at_with_errors
  \/ batch_stream_get_docs_at
  \/ batch_stream_get_docs
  \/ batch_stream_get_docs_with_errors
  \/ batch_stream_get_objects
  \/ batch_stream_get_objects_at
  \/ batch_stream_get_objects_at_with_errors
  \/ batch_stream_get_objects_with_errors
  \/ batch_get_documents_reply
  \/ stream_next
  \/ stream_end

\* a client that issues one operation on the session, single or batch
NoBatch == bpc = "idle"
NoGet == \A c \in Calls : pc[c] = "idle"

Next ==
  \/ \E c \in {FirstCall} : NoBatch /\ get_doc_at(c)
  \/ \E c \in {FirstCall} : NoBatch /\ get_doc(c)
  \/ \E c \in {FirstCall} : NoBatch /\ get_obj(c)
  \/ \E c \in {FirstCall} : NoBatch /\ get_obj_return_fields(c)
  \/ \E c \in {FirstCall} : NoBatch /\ get_obj_at(c)
  \/ \E c \in {FirstCall} : NoBatch /\ get_obj_at_return_fields(c)
  \/ \E c \in {FirstCall} : NoBatch /\ get_obj_if_exists(c)
  \/ \E c \in {FirstCall} : NoBatch /\ get_obj_at_if_exists(c)
  \/ \E c \in {FirstCall} : NoBatch /\ get_document_reply(c)
  \/ NoGet /\ batch_stream_get_docs_at_with_errors
  \/ NoGet /\ batch_stream_get_docs_at
  \/ NoGet /\ batch_stream_get_docs
  \/ NoGet /\ batch_stream_get_docs_with_errors
  \/ NoGet /\ batch_stream_get_objects
  \/ NoGet /\ batch_stream_get_objects_at
  \/ NoGet /\ batch_stream_get_objects_at_with_errors
  \/ NoGet /\ batch_stream_get_objects_with_errors
  \/ NoGet /\ batch_get_documents_reply
  \/ NoGet /\ stream_next
  \/ NoGet /\ stream_end

\* the batch call of the scenario: ids "a", "b", "c" of one collection, read
\* through the document views
ScenarioIds == << <<"a">>, <<"b">>, <<"c">> >>

scenario_batch_call ==
  /\ bpc = "idle"
  /\ \E op \in WithErrorsDocOps \cup DocOps :
       BatchGetDocsAtWithErrors(op, DocumentsPath, <<"c">>, ScenarioIds, None)

NextScenario ==
  \/ scenario_batch_call
  \/ batch_get_documents_reply
  \/ stream_next
  \/ stream_end

\* the explicit-scope form of each default-scope operation
ExplicitForm(op) ==
  CASE op = "get_doc" -> "get_doc_at"
    [] op = "get_obj" -> "get_obj_at"
    [] op = "get_obj_return_fields" -> "get_obj_at_return_fields"
    [] op = "get_obj_if_exists" -> "get_obj_at_if_exists"
    [] op = "batch_stream_get_docs" -> "batch_stream_get_docs_at"
    [] op = "batch_stream_get_docs_with_errors" -> "batch_stream_get_docs_at_with_errors"
    [] op = "batch_stream_get_objects" -> "batch_stream_get_objects_at"
    [] op = "batch_stream_get_objects_with_errors" -> "batch_stream_get_objects_at_with_errors"
    [] OTHER -> op
\* the error-preserving form of each error-suppressing batch operation
PreservingForm(op) ==
  CASE op = "batch_stream_get_docs_at" -> "batch_stream_get_docs_at_with_errors"
    [] op = "batch_stream_get_docs" -> "batch_stream_get_docs_with_errors"
    [] op = "batch_stream_get_objects_at" -> "batch_stream_get_objects_at_with_errors"
    [] op = "batch_stream_get_objects" -> "batch_stream_get_objects_with_errors"
    [] OTHER -> op
DefaultOps == {"get_doc", "get_obj", "get_obj_return_fields", "get_obj_if_exists"}
DefaultBatchOps == {"batch_stream_get_docs", "batch_stream_get_docs_with_errors",
                    "batch_stream_get_objects", "batch_stream_get_objects_with_errors"}
SecondCall == 2

\* call c2 invokes the explicit-scope form of the operation of call c1, with
\* the same arguments and parent = the default document root
explicit_form_call(c2, c1) ==
  /\ pc[c2] = "idle"
  /\ call[c1].op \in DefaultOps
  /\ GetDocAt(c2, ExplicitForm(call[c1].op), DocumentsPath, call[c1].collection_id,
              call[c1].document_id, call[c1].return_only_fields)

\* a default-scope call next to its explicit-scope counterpart, or one
\* default-scope batch call
NextDelegation ==
  \/ NoBatch /\ get_doc(FirstCall)
  \/ NoBatch /\ get_obj(FirstCall)
  \/ NoBatch /\ get_obj_return_fields(FirstCall)
  \/ NoBatch /\ get_obj_if_exists(FirstCall)
  \/ NoBatch /\ explicit_form_call(SecondCall, FirstCall)
  \/ \E c \in {FirstCall, SecondCall} : get_document_reply(c)
  \/ NoGet /\ batch_stream_get_docs
  \/ NoGet /\ batch_stream_get_docs_with_errors
  \/ NoGet /\ batch_stream_get_objects
  \/ NoGet /\ batch_stream_get_objects_with_errors
  \/ batch_get_documents_reply
  \/ stream_next
  \/ stream_end

SpecGet == Init /\ [][NextGet]_vars
\* names a Found document or a Missing answer can carry, with and without
\* separators
Names == SeqsUpTo(IdChars, MaxNameLen)

\* a batch call whose response stream delivers answers of any name
named_batch_call ==
  /\ bpc = "idle"
  /\ BatchGetDocsAtWithErrors("batch_stream_get_docs_at_with_errors", DocumentsPath,
                              <<"c">>, << >>, None)

stream_next_named ==
  /\ bpc = "streaming"
  /\ Len(arrived) < MaxItems
  /\ UNCHANGED <<options, getvars, bpc, bcall, brequests, bresult, slots>>
  /\ \E name \in Names :
       \E r \in { Ok(Response(Some(Found(Document(name, TRUE))))),
                  Ok(Response(Some(Missing(name)))) } :
         Consume(r)

NextNames ==
  \/ named_batch_call
  \/ batch_get_documents_reply
  \/ stream_next_named
  \/ stream_end

SpecNames == Init /\ [][NextNames]_vars

\* several tasks call get_doc_at on the shared session, interleaved
concurrent_get_doc_at(c) ==
  /\ pc[c] = "idle"
  /\ GetDocAt(c, "get_doc_at", DocumentsPath, <<"c">>, <<"a">>, None)

NextConcurrent ==
  \E c \in Calls :
    \/ concurrent_get_doc_at(c)
    \/ get_document_reply(c)

SpecConcurrent == Init /\ [][NextConcurrent]_vars

\* every RPC of the call is eventually answered
SpecGetFair == Init /\ [][NextGet]_vars /\ WF_vars(get_document_reply(FirstCall))
SpecDelegation == Init /\ [][NextDelegation]_vars
SpecScenario == Init /\ [][NextScenario]_vars
SpecBatch == Init /\ [][NextBatch]_vars
Spec == Init /\ [][Next]_vars

\* ----------------------------------------------------------------- claims
Last(s) == s[Len(s)]
IsRetryableFailure(reply) ==
  IsErr(reply) /\ reply.val.kind = "DatabaseError" /\ reply.val.retry_possible

\* C1 (retry bound): a finished single-document call that issued the RPC and
\* saw every attempt fail with a retryable DatabaseError made exactly
\* max_retries + 1 attempts and returned the error of the last attempt.
C1_RetryBound ==
  \A c \in Calls :
    ( /\ pc[c] = "done"
      /\ replies[c] # << >>
      /\ \A i \in 1..Len(replies[c]) : IsRetryableFailure(replies[c][i]) )
    => /\ Len(requests[c]) = options.max_retries + 1
       /\ Len(replies[c]) = options.max_retries + 1
       /\ result[c].tag = "Err"
       /\ result[c].val = Last(replies[c]).val

C1_Witness ==
  \E c \in Calls :
    /\ pc[c] = "done"
    /\ options.max_retries >= 1
    /\ Len(replies[c]) = options.max_retries + 1
    /\ \A i \in 1..Len(replies[c]) : IsRetryableFailure(replies[c][i])
    /\ replies[c][1] # Last(replies[c])
    /\ result[c] = Last(replies[c])

\* C2 (mask reset): the first request of a call carries the mask the caller
\* passed, every later request carries no mask.
C2_MaskReset ==
  \A c \in Calls :
    \A i \in 1..Len(requests[c]) :
      requests[c][i].mask = IF i = 1 THEN call[c].return_only_fields ELSE None

C2_Witness ==
  \E c \in Calls :
    /\ call[c].return_only_fields # None
    /\ Len(requests[c]) >= 2
    /\ requests[c][1].mask = call[c].return_only_fields
    /\ requests[c][2].mask = None

\* C3 (non-retryable failure): once an attempt has failed with an error that
\* is not a DatabaseError marked retry_possible, the call is over, no request
\* follows that attempt, and (the existence-folding wrappers apart) the call
\* returned exactly that error.
C3_NonRetryableFailure ==
  \A c \in Calls :
    ( /\ replies[c] # << >>
      /\ IsErr(Last(replies[c]))
      /\ ~IsRetryableFailure(Last(replies[c])) )
    => /\ pc[c] = "done"
       /\ Len(requests[c]) = Len(replies[c])
       /\ call[c].op \notin FoldingOps
            => result[c].tag = "Err" /\ result[c].val = Last(replies[c]).val

C3_Witness ==
  \E c \in Calls :
    /\ pc[c] = "done"
    /\ call[c].op \in {"get_doc", "get_doc_at"}
    /\ options.max_retries >= 1
    /\ Len(replies[c]) = 1
    /\ Last(replies[c]).tag = "Err"
    /\ Last(replies[c]).val.kind = "DataNotFoundError"
    /\ result[c] = Last(replies[c])

\* C4 (not-found folding): a finished get_obj_if_exists / get_obj_at_if_exists
\* returned Ok(None) exactly when the fetch ended with DataNotFoundError,
\* Ok(Some(obj)) when the document arrived and decoded, Err(DeserializeError)
\* when it arrived and did not decode, and any other error unchanged.
C4_NotFoundFolding ==
  \A c \in Calls :
    (pc[c] = "done" /\ call[c].op \in FoldingOps) =>
      IF replies[c] = << >>
      THEN result[c].tag = "Err" /\ result[c].val.kind = "InvalidParametersError"
      ELSE LET last == Last(replies[c])
           IN IF IsOk(last)
              THEN IF last.val.decodable
                   THEN result[c].tag = "Ok" /\ result[c].val = Some(Object(last.val.name))
                   ELSE result[c].tag = "Err" /\ result[c].val.kind = "DeserializeError"
              ELSE IF last.val.kind = "DataNotFoundError"
                   THEN result[c].tag = "Ok" /\ result[c].val = None
                   ELSE result[c].tag = "Err" /\ result[c].val = last.val

C4_Witness ==
  \E c \in Calls :
    /\ pc[c] = "done"
    /\ call[c].op \in FoldingOps
    /\ replies[c] # << >>
    /\ Last(replies[c]).tag = "Err"
    /\ Last(replies[c]).val.kind = "DataNotFoundError"
    /\ result[c].tag = "Ok"
    /\ result[c].val = None

\* the path of a requested id of the batch call
JoinPath(doc_id) ==
  bcall.parent \o <<Slash>> \o bcall.collection_id \o <<Slash>> \o doc_id
Distinct(s) == \A i, j \in 1..Len(s) : i # j => s[i] # s[j]
IsFoundItem(r) == IsOk(r) /\ r.val.result # None /\ Unwrap(r.val.result).case = "Found"
IsMissingItem(r) == IsOk(r) /\ r.val.result # None /\ Unwrap(r.val.result).case = "Missing"
ItemName(r) ==
  IF IsFoundItem(r) THEN Unwrap(r.val.result).document.name ELSE Unwrap(r.val.result).missing
ElementsOf(i) == { j \in 1..Len(out) : origin[j] = i }

\* C5 (identity preservation): when batch_stream_get_docs_at_with_errors was
\* called with distinct ids and its response stream ended without a
\* transport error, every element is Ok and each requested id is the
\* identifier of exactly one element.
C5_IdentityPreservation ==
  ( /\ bpc = "done"
    /\ bcall.op \in WithErrorsDocOps
    /\ Distinct(bcall.document_ids)
    /\ \A i \in 1..Len(arrived) : IsOk(arrived[i]) )
  => /\ \A j \in 1..Len(out) : out[j].tag = "Ok"
     /\ Len(out) = Len(bcall.document_ids)
     /\ \A k \in 1..Len(bcall.document_ids) :
          Cardinality({ j \in 1..Len(out) : out[j].val.id = bcall.document_ids[k] }) = 1

C5_Witness ==
  /\ bpc = "done"
  /\ bcall.op \in WithErrorsDocOps
  /\ Len(bcall.document_ids) = 2
  /\ Distinct(bcall.document_ids)
  /\ \A i \in 1..Len(arrived) : IsOk(arrived[i])
  /\ \E i \in 1..Len(arrived) : arrived[i] = EmptyItem
  /\ Len(out) = 2
  /\ out[1].val.id = bcall.document_ids[2]
  /\ out[2].val.id = bcall.document_ids[1]

\* C6 (missing vs error): every Missing envelope yields exactly one element,
\* the pair (requested id, None): Ok of it in the error-preserving views, the
\* pair itself in the error-suppressing views, for documents and objects.
C6_MissingYieldsNone ==
  \A i \in 1..Len(arrived) :
    IsMissingItem(arrived[i]) =>
      /\ Cardinality(ElementsOf(i)) = 1
      /\ \E id \in Range(bcall.document_ids) :
           /\ JoinPath(id) = ItemName(arrived[i])
           /\ \A j \in ElementsOf(i) :
                IF bcall.op \in PreservingOps
                THEN out[j].tag = "Ok" /\ out[j].val = Pair(id, None)
                ELSE out[j] = Pair(id, None)

C6_Witness ==
  /\ Len(arrived) = 2
  /\ IsErr(arrived[1])
  /\ IsMissingItem(arrived[2])
  /\ Len(out) >= 1
  /\ origin[Len(out)] = 2
  /\ bcall.op \in ObjectOps \cup WithErrorsObjectOps

\* C7 (suppression liveness): in the error-suppressing views every Missing
\* envelope and every Found envelope whose document the view keeps (any
\* document for the document view, a decodable one for the typed view) has
\* its element in the output, whatever errors arrived before it.
C7_Kept(r) ==
  \/ IsMissingItem(r)
  \/ IsFoundItem(r) /\ (bcall.op \in DocOps \/ Unwrap(r.val.result).document.decodable)
C7_Dropped(r) ==
  \/ IsErr(r)
  \/ IsFoundItem(r) /\ bcall.op \in ObjectOps /\ ~Unwrap(r.val.result).document.decodable

C7_SuppressionLiveness ==
  bcall.op \in SuppressingOps =>
    \A i \in 1..Len(arrived) :
      C7_Kept(arrived[i]) =>
        \E j \in 1..Len(out) :
          origin[j] = i /\ JoinPath(out[j].id) = ItemName(arrived[i])

C7_Witness ==
  /\ bcall.op \in SuppressingOps
  /\ Len(arrived) = 2
  /\ C7_Dropped(arrived[1])
  /\ C7_Kept(arrived[2])
  /\ Len(out) = 1
  /\ origin[1] = 2

\* C8 (arrival order): the elements of the output are in the order in which
\* their envelopes arrived, and each element is the one of its envelope.
C8_Belongs(e, r) ==
  IF IsErr(r) THEN bcall.op \in PreservingOps /\ e.tag = "Err" /\ e.val = r.val
  ELSE IF bcall.op \in PreservingOps
       THEN IF e.tag = "Ok" THEN JoinPath(e.val.id) = ItemName(r)
            ELSE e.val.kind = "DeserializeError" /\ e.val.detail = ItemName(r)
       ELSE JoinPath(e.id) = ItemName(r)

C8_ArrivalOrder ==
  /\ Len(origin) = Len(out)
  /\ \A j \in 1..Len(out) :
       /\ origin[j] \in 1..Len(arrived)
       /\ arrived[origin[j]] # EmptyItem
       /\ C8_Belongs(out[j], arrived[origin[j]])
  /\ \A j, k \in 1..Len(out) : j < k => origin[j] < origin[k]

C8_Witness ==
  /\ Len(bcall.document_ids) = 2
  /\ Len(out) = 2
  /\ bcall.op \in SuppressingOps
  /\ out[1].id = bcall.document_ids[2]
  /\ out[2].id = bcall.document_ids[1]
  /\ out[1].id # out[2].id
  /\ origin[1] < origin[2]

\* C9 (per-element isolation): in the error-preserving views every envelope
\* that carries a result or a transport error yields exactly one element at
\* its place: Err of that error for a transport error, Err(DeserializeError)
\* for a found document the typed view cannot decode, Ok otherwise.
C9_PerElementIsolation ==
  bcall.op \in PreservingOps =>
    /\ Len(out) = Cardinality({ i \in 1..Len(arrived) : arrived[i] # EmptyItem })
    /\ \A i \in 1..Len(arrived) :
         arrived[i] # EmptyItem =>
           /\ Cardinality(ElementsOf(i)) = 1
           /\ \A j \in ElementsOf(i) :
                IF IsErr(arrived[i])
                THEN out[j].tag = "Err" /\ out[j].val = arrived[i].val
                ELSE IF /\ IsFoundItem(arrived[i])
                        /\ bcall.op \in WithErrorsObjectOps
                        /\ ~Unwrap(arrived[i].val.result).document.decodable
                THEN out[j].tag = "Err" /\ out[j].val.kind = "DeserializeError"
                ELSE out[j].tag = "Ok"

C9_Witness ==
  /\ bcall.op \in WithErrorsObjectOps
  /\ Len(arrived) = 2
  /\ Len(out) = 2
  /\ \E i \in 1..2 : IsErr(arrived[i]) /\ out[i].tag = "Err"
  /\ \E i \in 1..2 : IsFoundItem(arrived[i]) /\ out[i].tag = "Err"
                       /\ out[i].val.kind = "DeserializeError"

\* C10 (fail-fast path resolution): a call one of whose ids does not resolve
\* has failed with the resolution error of the first such id, has issued no
\* RPC and has produced no element.
FirstUnresolved(parent, collection_id, document_ids) ==
  LET bad == { k \in 1..Len(document_ids) :
                 IsErr(safe_document_path(parent, collection_id, document_ids[k])) }
      k0 == CHOOSE k \in bad : \A k2 \in bad : k <= k2
  IN safe_document_path(parent, collection_id, document_ids[k0])

C10_Unresolved(parent, collection_id, document_ids) ==
  \E k \in 1..Len(document_ids) :
    IsErr(safe_document_path(parent, collection_id, document_ids[k]))

C10_FailFast ==
  /\ (bcall.op # "none" /\ C10_Unresolved(bcall.parent, bcall.collection_id, bcall.document_ids))
       => /\ bpc = "failed"
          /\ bresult = FirstUnresolved(bcall.parent, bcall.collection_id, bcall.document_ids)
          /\ brequests = << >>
          /\ arrived = << >>
          /\ out = << >>
  /\ \A c \in Calls :
       (call[c].op # "none" /\ C10_Unresolved(call[c].parent, call[c].collection_id, <<call[c].document_id>>))
         => /\ pc[c] = "done"
            /\ result[c] = safe_document_path(call[c].parent, call[c].collection_id, call[c].document_id)
            /\ requests[c] = << >>
            /\ replies[c] = << >>

C10_Witness ==
  /\ bcall.op # "none"
  /\ Len(bcall.document_ids) = 2
  /\ ~IsErr(safe_document_path(bcall.parent, bcall.collection_id, bcall.document_ids[1]))
  /\ IsErr(safe_document_path(bcall.parent, bcall.collection_id, bcall.document_ids[2]))
  /\ options.selector_ok
  /\ bpc = "failed"
  /\ brequests = << >>

\* the scenario's response stream: Found(b), then Missing(a), then a
\* transport error in the place of c
C11_Scenario ==
  /\ bcall.document_ids = ScenarioIds
  /\ Len(arrived) = 3
  /\ IsFoundItem(arrived[1]) /\ ItemName(arrived[1]) = JoinPath(<<"b">>)
  /\ IsMissingItem(arrived[2]) /\ ItemName(arrived[2]) = JoinPath(<<"a">>)
  /\ IsErr(arrived[3])
C11_Doc == Unwrap(arrived[1].val.result).document

\* C11 as stated: the error-preserving view yields ("a", None), ("b", Some(doc)),
\* Err in that order and the error-suppressing view [("a", None), ("b", Some(doc))].
C11_AsStated ==
  C11_Scenario =>
    out = IF bcall.op \in PreservingOps
          THEN << Ok(Pair(<<"a">>, None)), Ok(Pair(<<"b">>, Some(C11_Doc))), Err(arrived[3].val) >>
          ELSE << Pair(<<"a">>, None), Pair(<<"b">>, Some(C11_Doc)) >>

\* C11 (scenario), amended: the elements come in arrival order, so the
\* error-preserving view yields ("b", Some(doc)), ("a", None), Err and the
\* error-suppressing view [("b", Some(doc)), ("a", None)].
C11_ScenarioInArrivalOrder ==
  C11_Scenario =>
    out = IF bcall.op \in PreservingOps
          THEN << Ok(Pair(<<"b">>, Some(C11_Doc))), Ok(Pair(<<"a">>, None)), Err(arrived[3].val) >>
          ELSE << Pair(<<"b">>, Some(C11_Doc)), Pair(<<"a">>, None) >>

C11_Witness ==
  /\ C11_Scenario
  /\ bcall.op \in PreservingOps
  /\ Len(out) = 3
  /\ out[3].tag = "Err"

\* C12 (default-scope delegation): a default-scope single-document call and
\* the explicit-scope form called with parent = the default root and the same
\* arguments, after the same RPC outcomes, have issued the same requests and are
\* in the same state with the same result; a default-scope batch call has
\* sent the request for the paths under the default root and its stream holds
\* exactly the elements the explicit-scope form's stream yields for the
\* envelopes received.
C12_DefaultPaths ==
  [k \in 1..Len(bcall.document_ids) |->
     DocumentsPath \o <<Slash>> \o bcall.collection_id \o <<Slash>> \o bcall.document_ids[k]]

C12_DefaultScopeDelegation ==
  /\ (call[FirstCall].op \in DefaultOps /\ call[SecondCall].op # "none"
        /\ replies[FirstCall] = replies[SecondCall])
       => /\ call[SecondCall].op = ExplicitForm(call[FirstCall].op)
          /\ call[SecondCall].parent = DocumentsPath
          /\ requests[FirstCall] = requests[SecondCall]
          /\ pc[FirstCall] = pc[SecondCall]
          /\ result[FirstCall] = result[SecondCall]
  /\ bcall.op \in DefaultBatchOps =>
       /\ bpc \in {"handshake", "streaming", "done"} =>
            brequests = << [documents |-> C12_DefaultPaths, mask |-> bcall.return_only_fields] >>
       /\ Len(brequests) <= 1
       /\ \A j \in 1..Len(out) :
            out[j] = Unwrap(Element(ExplicitForm(bcall.op), arrived[origin[j]]))
       /\ \A i \in 1..Len(arrived) :
            IsSome(Element(ExplicitForm(bcall.op), arrived[i])) => Cardinality(ElementsOf(i)) = 1

C12_Witness ==
  /\ call[FirstCall].op = "get_obj_if_exists"
  /\ call[SecondCall].op = "get_obj_at_if_exists"
  /\ pc[FirstCall] = "done"
  /\ pc[SecondCall] = "done"
  /\ Len(replies[FirstCall]) = 2
  /\ replies[FirstCall] = replies[SecondCall]
  /\ result[FirstCall] = Ok(None)
  /\ result[SecondCall] = Ok(None)

\* C13 (termination): when every RPC is eventually answered, a call that
\* awaits a reply eventually returns; it never issues more than
\* max_retries + 1 requests; a successful attempt ends the call at once with
\* that attempt's document; and when the last allowed attempt fails
\* retryably the call returns that error.
C13_Termination ==
  /\ \A c \in {FirstCall} : (pc[c] = "rpc") ~> (pc[c] = "done")
  /\ [](\A c \in Calls :
          /\ Len(requests[c]) <= options.max_retries + 1
          /\ (replies[c] # << >> /\ IsOk(Last(replies[c])))
               => /\ pc[c] = "done"
                  /\ Len(requests[c]) = Len(replies[c])
                  /\ call[c].op \notin TypedOps => result[c] = Last(replies[c])
          /\ (Len(replies[c]) = options.max_retries + 1 /\ IsRetryableFailure(Last(replies[c])))
               => /\ pc[c] = "done"
                  /\ result[c] = Last(replies[c]))

C13_Witness ==
  \E c \in Calls :
    /\ pc[c] = "done"
    /\ options.max_retries >= 1
    /\ Len(replies[c]) = options.max_retries + 1
    /\ IsOk(Last(replies[c]))
    /\ call[c].op = "get_doc_at"
    /\ result[c] = Last(replies[c])

\* C14 as stated: a batch call issues exactly one batch RPC whatever happens,
\* and a transport error inside the response stream is surfaced once as an
\* element.
C14_AsStated ==
  bcall.op # "none" =>
    /\ Len(brequests) = 1
    /\ \A i \in 1..Len(arrived) :
         IsErr(arrived[i]) => Cardinality(ElementsOf(i)) = 1

\* C14 (no batch retry), amended: a batch call issues at most one batch RPC,
\* exactly one once every id resolved and the request was built and none
\* otherwise; a failure of that RPC is the failure of the call, with no
\* stream and no element; a transport error inside the response stream is
\* one Err element of the error-preserving views and never leads to a new
\* RPC.
C14_NoBatchRetry ==
  bcall.op # "none" =>
    /\ Len(brequests) <= 1
    /\ Len(brequests) = 1 <=>
         /\ ~C10_Unresolved(bcall.parent, bcall.collection_id, bcall.document_ids)
         /\ options.selector_ok
    /\ bpc \in {"handshake", "streaming", "done"} => Len(brequests) = 1
    /\ (bpc = "failed" /\ Len(brequests) = 1)
         => /\ bresult.tag = "Err"
            /\ bresult.val \in StreamErrors
            /\ arrived = << >>
            /\ out = << >>
    /\ bcall.op \in PreservingOps =>
         \A i \in 1..Len(arrived) :
           IsErr(arrived[i]) =>
             /\ Cardinality(ElementsOf(i)) = 1
             /\ \A j \in ElementsOf(i) : out[j] = Err(arrived[i].val)

C14_Witness ==
  /\ bcall.op \in PreservingOps
  /\ bpc = "done"
  /\ Len(brequests) = 1
  /\ Len(arrived) = 2
  /\ IsErr(arrived[1]) /\ arrived[1].val.retry_possible
  /\ IsErr(arrived[2])
  /\ Len(out) = 2

\* the elements the stream of `op` yields for the items s, in order
RECURSIVE C15_View(_, _)
C15_View(op, s) ==
  IF s = << >> THEN << >>
  ELSE LET elem == Element(op, Last(s))
           before == C15_View(op, SubSeq(s, 1, Len(s) - 1))
       IN IF IsSome(elem) THEN Append(before, Unwrap(elem)) ELSE before

RECURSIVE C15_OkPayloads(_)
C15_OkPayloads(s) ==
  IF s = << >> THEN << >>
  ELSE LET before == C15_OkPayloads(SubSeq(s, 1, Len(s) - 1))
       IN IF Last(s).tag = "Ok" THEN Append(before, Last(s).val) ELSE before

\* C15 (suppressing view = filtered preserving view): the output of an
\* error-suppressing operation is the sequence of Ok payloads, in order, of
\* the output its error-preserving form has for the same response stream.
C15_SuppressingIsFilteredPreserving ==
  bcall.op \in SuppressingOps =>
    out = C15_OkPayloads(C15_View(PreservingForm(bcall.op), arrived))

C15_Witness ==
  /\ bcall.op \in ObjectOps
  /\ Len(arrived) = 2
  /\ IsErr(arrived[1])
  /\ IsFoundItem(arrived[2])
  /\ ~Unwrap(arrived[2].val.result).document.decodable
  /\ out = << >>
  /\ Len(C15_View(PreservingForm(bcall.op), arrived)) = 2

\* C16 (one element per envelope, completion with the stream): the output
\* never holds more elements than envelopes were consumed; an element is
\* produced only by the step that consumes an envelope, at most one per
\* envelope; the output completes in the step in which the response stream
\* completes, and nothing is produced or consumed after that.
C16_OneElementPerEnvelope ==
  /\ [](Len(out) <= Len(arrived))
  /\ [][ /\ out' # out =>
              /\ bpc = "streaming"
              /\ Len(arrived') = Len(arrived) + 1
              /\ Len(out') = Len(out) + 1
              /\ SubSeq(out', 1, Len(out)) = out
         /\ bpc = "done" => (bpc' = "done" /\ out' = out /\ arrived' = arrived)
         /\ (bpc # "done" /\ bpc' = "done") =>
              (bpc = "streaming" /\ slots = {} /\ out' = out /\ arrived' = arrived)
       ]_vars

C16_Witness ==
  /\ bpc = "done"
  /\ Len(arrived) = 3
  /\ \E i \in 1..3 : arrived[i] = EmptyItem
  /\ Len(out) = 2

\* C17 (call-local retry counter): each call starts with attempt count 0;
\* its count is the number of its own requests minus one, and the number of
\* its requests is one plus the number of its own retryable failures among
\* its first max_retries replies; a step of one call leaves the counter,
\* the requests and the result of every other call unchanged.
C17_CallLocalRetryCounter ==
  /\ [](\A c \in Calls :
          requests[c] # << >> =>
            /\ retries[c] = Len(requests[c]) - 1
            /\ Len(requests[c]) =
                 1 + Cardinality({ i \in 1..Len(replies[c]) :
                                     i <= options.max_retries /\ IsRetryableFailure(replies[c][i]) }))
  /\ [][\A c \in Calls :
          /\ (pc[c] = "idle" /\ pc'[c] = "rpc") => (retries'[c] = 0 /\ Len(requests'[c]) = 1)
          /\ (call'[c] = call[c] /\ replies'[c] = replies[c]) =>
               /\ retries'[c] = retries[c]
               /\ requests'[c] = requests[c]
               /\ result'[c] = result[c]
               /\ pc'[c] = pc[c]
     ]_vars

C17_Witness ==
  /\ options.max_retries >= 1
  /\ pc[FirstCall] = "done"
  /\ pc[SecondCall] = "done"
  /\ Len(requests[FirstCall]) = options.max_retries + 1
  /\ \A i \in 1..Len(replies[FirstCall]) : IsRetryableFailure(replies[FirstCall][i])
  /\ Len(requests[SecondCall]) = 2
  /\ IsOk(Last(replies[SecondCall]))

\* C18 (decode failure is terminal and distinct): once the RPC of a typed
\* single-document fetch has returned a document that does not decode, the
\* call is over with Err(DeserializeError), never DataNotFoundError and never
\* a value, and no request follows.
C18_DecodeFailureTerminal ==
  \A c \in Calls :
    ( /\ call[c].op \in TypedOps
      /\ replies[c] # << >>
      /\ IsOk(Last(replies[c]))
      /\ ~Last(replies[c]).val.decodable )
    => /\ pc[c] = "done"
       /\ Len(requests[c]) = Len(replies[c])
       /\ result[c].tag = "Err"
       /\ result[c].val.kind = "DeserializeError"

C18_Witness ==
  \E c \in Calls :
    /\ call[c].op \in {"get_obj_at", "get_obj_at_return_fields"}
    /\ options.max_retries >= 1
    /\ Len(replies[c]) = 1
    /\ IsOk(Last(replies[c]))
    /\ ~Last(replies[c]).val.decodable
    /\ pc[c] = "done"
    /\ result[c].tag = "Err"

\* id is what follows the last separator of name, all of name when it has none
C19_IsFinalSegment(id, name) ==
  IF \A k \in 1..Len(name) : name[k] # Slash
  THEN id = name
  ELSE \E k \in 1..Len(name) :
         /\ name[k] = Slash
         /\ \A m \in (k + 1)..Len(name) : name[m] # Slash
         /\ Len(id) = Len(name) - k
         /\ \A m \in 1..Len(id) : id[m] = name[k + m]

\* C19 (final-segment extraction): every Found or Missing answer, whatever its
\* name, yields exactly one Ok element whose identifier is the part of the
\* name after its last '/', the whole name when it holds no '/'.
C19_FinalSegmentExtraction ==
  \A i \in 1..Len(arrived) :
    (IsFoundItem(arrived[i]) \/ IsMissingItem(arrived[i])) =>
      /\ Cardinality(ElementsOf(i)) = 1
      /\ \A j \in ElementsOf(i) :
           /\ out[j].tag = "Ok"
           /\ C19_IsFinalSegment(out[j].val.id, ItemName(arrived[i]))

C19_Witness ==
  /\ Len(arrived) = 2
  /\ IsFoundItem(arrived[1])
  /\ ItemName(arrived[1]) = <<"a", "a">>
  /\ IsMissingItem(arrived[2])
  /\ ItemName(arrived[2]) = <<"a", Slash, "a">>
  /\ Len(out) = 2
  /\ out[1].val.id = <<"a", "a">>
  /\ out[2].val.id = <<"a">>

\* C20 (response without a result): a received response that carries neither
\* Found nor Missing yields no element in any view, and every later item the
\* view keeps still yields its element.
C20_Keeps(r) ==
  IF bcall.op \in PreservingOps THEN r # EmptyItem ELSE C7_Kept(r)

C20_EmptyResponseSkipped ==
  \A i \in 1..Len(arrived) :
    arrived[i] = EmptyItem =>
      /\ ElementsOf(i) = {}
      /\ \A k \in (i + 1)..Len(arrived) :
           C20_Keeps(arrived[k]) => Cardinality(ElementsOf(k)) = 1

C20_Witness ==
  /\ Len(arrived) = 2
  /\ arrived[1] = EmptyItem
  /\ IsMissingItem(arrived[2])
  /\ Len(out) = 1
  /\ origin[1] = 2
  /\ bcall.op \in PreservingOps

====
